---- MODULE Spec2Model ----
(***************************************************************************)
(* Model of the reservation scheduling engine of the booking system:       *)
(* src/src/lib/services.ts (createReservation, updateReservation,          *)
(* deleteReservation, checkTableAvailability, getReservationsWithCrossDay, *)
(* autoCompleteExpiredReservations), src/src/lib/api-client.ts             *)
(* (transaction) and src/src/lib/schema.sql (check_reservation_overlap).   *)
(*                                                                         *)
(* Units.  reservation_time is minutes after 00:00 (TIME column).          *)
(* duration_hours is in tenths of an hour (NUMERIC with one decimal), so   *)
(* the sentinel -1 is Indefinite == -10 and 2.5h is 25.  reservation_date  *)
(* is a day number.  The clock "now" is minutes since 00:00 of day 0.      *)
(***************************************************************************)
EXTENDS Integers, Sequences, FiniteSets, TLC

VARIABLES reservations, activity_logs, now, calls

vars == <<reservations, activity_logs, now, calls>>

--------------------------------------------------------------------------
(* Bounds of the model *)

MaxRes == 2
MaxLogs == 1
MaxTicks == 2

(* Program constants *)

maxRetries == 3
DayMinutes == 1440
TenthMinutes == 6
Indefinite == -10
DefaultDuration == 20
CapHour == 6
AutoCompleteCap == 60
IndefiniteExpiryHours == 6
MinDuration == 1

Procs == {1, 2}
Null == "null"
NoRow == [absent |-> TRUE]

(* tables(id, max_capacity): the rows of the tables relation *)
max_capacity == (1 :> 2) @@ (2 :> 4)
TableIds == DOMAIN max_capacity

--------------------------------------------------------------------------
(* Time arithmetic *)

Mod(a, n) == ((a % n) + n) % n

Max2(a, b) == IF a >= b THEN a ELSE b
Min2(a, b) == IF a <= b THEN a ELSE b

(* Math.round(x * 10) / 10 of a number of minutes expressed in hours,      *)
(* as tenths of an hour (Math.round rounds halves up).                     *)
RoundTenths(minutes) == (minutes + 3) \div TenthMinutes

(* PostgreSQL "time + interval": wraps around midnight, result in [0,24h) *)
TimePlus(t, d) == Mod(t + TenthMinutes * d, DayMinutes)

(* new Date(date + 'T00:00:00'); setHours(h, m, 0, 0) *)
StartInstant(date, time) == date * DayMinutes + time

(* end of the interval a reservation blocks in checkTableAvailability *)
EndInstant(date, time, duration) ==
    IF duration = Indefinite
    THEN (date + 1) * DayMinutes + CapHour * 60
    ELSE StartInstant(date, time) + TenthMinutes * duration

--------------------------------------------------------------------------
(* schema.sql: check_reservation_overlap, the predicate inside the COUNT.  *)
(* new is the NEW row, r an existing row; all comparisons are on TIME      *)
(* values, so ends that pass midnight wrap.                                *)

rEnd(r) == TimePlus(r.reservation_time, r.duration_hours)

MidnightCrossoverCase(new, r) ==
    IF rEnd(r) >= r.reservation_time /\ rEnd(new) >= new.reservation_time
    THEN (* Case 1: neither reservation crosses midnight *)
         new.reservation_time < rEnd(r) /\ rEnd(new) > r.reservation_time
    ELSE IF rEnd(r) < r.reservation_time /\ rEnd(new) >= new.reservation_time
    THEN (* Case 2: existing crosses midnight, new does not *)
         \/ new.reservation_time >= r.reservation_time
         \/ rEnd(new) > r.reservation_time
         \/ rEnd(new) <= rEnd(r)
    ELSE IF rEnd(r) >= r.reservation_time /\ rEnd(new) < new.reservation_time
    THEN (* Case 3: new crosses midnight, existing does not *)
         \/ rEnd(new) > r.reservation_time
         \/ new.reservation_time < rEnd(r)
    ELSE (* Case 4: both cross midnight *)
         TRUE

OverlapCase(new, r) ==
    IF new.duration_hours = Indefinite
    THEN \/ r.duration_hours = Indefinite
         \/ rEnd(r) > new.reservation_time
    ELSE \/ (r.duration_hours = Indefinite /\ r.reservation_time <= rEnd(new))
         \/ (r.duration_hours > 0 /\ MidnightCrossoverCase(new, r))

(* check_reservation_overlap without the test id != NEW.id: an UPDATE      *)
(* meets the row it rewrites.  C33 does not hold of it.                    *)
check_reservation_overlapCountsSelf(rows, new, newId) ==
    \E i \in 1..Len(rows) :
        /\ rows[i].table_id = new.table_id
        /\ rows[i].reservation_date = new.reservation_date
        /\ rows[i].status = "active"
        /\ OverlapCase(new, rows[i])

(* overlap_count > 0 for NEW with id newId (0 for an INSERT, whose id is   *)
(* fresh) against the rows visible to the statement.                       *)
check_reservation_overlap(rows, new, newId) ==
    \E i \in 1..Len(rows) :
        /\ rows[i].table_id = new.table_id
        /\ rows[i].reservation_date = new.reservation_date
        /\ rows[i].status = "active"
        /\ i # newId
        /\ OverlapCase(new, rows[i])

--------------------------------------------------------------------------
(* services.ts: getReservationsWithCrossDay                                *)

StatusMatches(r, statusFilter) == statusFilter = "all" \/ r.status = statusFilter

(* EXTRACT(HOUR FROM reservation_time) + duration_hours > 24, in tenths *)
CrossesMidnightSql(r) ==
    /\ r.duration_hours > 0
    /\ (r.reservation_time \div 60) * 10 + r.duration_hours > 240

(* isReservationActiveOnDate whose maxBlockTime is 06:00 of the           *)
(* reservation's own date (setDate(+1) forgotten).  C13 does not hold of   *)
(* it.                                                                     *)
isReservationActiveOnDateSameDayCap(r, targetDate) ==
    IF targetDate - r.reservation_date # 1 THEN FALSE
    ELSE IF r.duration_hours = Indefinite
    THEN targetDate * DayMinutes <
            r.reservation_date * DayMinutes + CapHour * 60
    ELSE StartInstant(r.reservation_date, r.reservation_time)
            + TenthMinutes * r.duration_hours > targetDate * DayMinutes

isReservationActiveOnDate(r, targetDate) ==
    IF targetDate - r.reservation_date # 1 THEN FALSE
    ELSE IF r.duration_hours = Indefinite
    THEN (* maxBlockTime = start hour, one day later, at 06:00 *)
         targetDate * DayMinutes <
            (r.reservation_date + 1) * DayMinutes + CapHour * 60
    ELSE StartInstant(r.reservation_date, r.reservation_time)
            + TenthMinutes * r.duration_hours > targetDate * DayMinutes

sameDayIds(rows, date, statusFilter) ==
    { i \in 1..Len(rows) :
        rows[i].reservation_date = date /\ StatusMatches(rows[i], statusFilter) }

previousDayIds(rows, date, statusFilter) ==
    { i \in 1..Len(rows) :
        /\ rows[i].reservation_date = date - 1
        /\ StatusMatches(rows[i], statusFilter)
        /\ (rows[i].duration_hours = Indefinite \/ CrossesMidnightSql(rows[i]))
        /\ isReservationActiveOnDate(rows[i], date) }

getReservationsWithCrossDay(rows, date, statusFilter) ==
    [sameDay |-> sameDayIds(rows, date, statusFilter),
     previousDay |-> previousDayIds(rows, date, statusFilter),
     all |-> sameDayIds(rows, date, statusFilter)
                \cup previousDayIds(rows, date, statusFilter)]

--------------------------------------------------------------------------
(* services.ts: checkTableAvailability *)

IntervalsOverlap(s1, e1, s2, e2) == s1 < e2 /\ s2 < e1

checkTableAvailability(rows, tableId, date, time, durationHours, excludeReservationId) ==
    LET result == getReservationsWithCrossDay(rows, date, "all")
        tableReservations ==
            { i \in result.sameDay \cup result.previousDay :
                /\ rows[i].table_id = tableId
                /\ rows[i].status \in {"active", "completed"}
                /\ i # excludeReservationId }
        hasConflict ==
            \E i \in tableReservations :
                IntervalsOverlap(
                    StartInstant(date, time),
                    EndInstant(date, time, durationHours),
                    StartInstant(rows[i].reservation_date, rows[i].reservation_time),
                    EndInstant(rows[i].reservation_date, rows[i].reservation_time,
                               rows[i].duration_hours))
    IN ~hasConflict

--------------------------------------------------------------------------
(* Inputs of the model *)

StartNow == 18 * 60
TickMinutes == 6 * 60

NewInput(t, d, tm, dur, ps) ==
    [table_id |-> t, guest_name |-> "g1", guest_phone |-> "", party_size |-> ps,
     reservation_date |-> d, reservation_time |-> tm, duration_hours |-> dur,
     notes |-> Null]

CreateInputs ==
    { NewInput(1, 0, 18 * 60, 40, 2),           \* day 0, 18:00-22:00
      NewInput(1, 0, 22 * 60, Indefinite, 2),   \* day 0, 22:00, indefinite
      NewInput(1, 0, 22 * 60, 40, 2),           \* day 0, 22:00-02:00
      NewInput(1, 1, 60, 40, 2) }               \* day 1, 01:00-05:00

(* inputs a validation would have to reject, and one it would accept *)
InputCases ==
    { NewInput(2, 1, 18 * 60, 40, 2),           \* valid
      NewInput(1, 1, 18 * 60 + 5, 40, 2),       \* 18:05 is not a slot
      NewInput(1, 1, 10 * 60, 40, 2),           \* 10:00 is outside the window
      NewInput(1, 1, 18 * 60, 40, 3),           \* party above max_capacity
      NewInput(1, 0, 18 * 60, 0, 2),            \* duration_hours missing
      NewInput(1, 1, 18 * 60, 40, 0),           \* violates valid_party_size
      NewInput(3, 1, 18 * 60, 40, 2) }          \* no such table

UpdateInputs ==
    { [notes |-> "n1"],
      [status |-> "completed", complete_now |-> TRUE],
      [status |-> "active"],
      [status |-> "cancelled"],
      [reservation_time |-> 22 * 60] }

UpdatableFields ==
    {"table_id", "guest_name", "guest_phone", "party_size", "reservation_date",
     "reservation_time", "duration_hours", "notes", "status"}

--------------------------------------------------------------------------
(* State of one call (request) being served.  pc is the statement the call *)
(* executes next; pend is the write of its open transaction.               *)

NoPend == [kind |-> "none", id |-> 0, haslog |-> FALSE]
NoResult == [ok |-> FALSE, error |-> "", id |-> 0, count |-> 0]
NoChanges == [f \in {} |-> 0]

IdleCall ==
    [pc |-> "idle", op |-> "none", caller |-> "none", input |-> NoChanges,
     id |-> 0, attempt |-> 0, cur |-> NoRow, data |-> NoChanges,
     changes |-> NoChanges, pend |-> NoPend, phase |-> "none", queue |-> {},
     completedCount |-> 0, result |-> NoResult]

Ok(id, count) == [ok |-> TRUE, error |-> "", id |-> id, count |-> count]
Err(msg) == [ok |-> FALSE, error |-> msg, id |-> 0, count |-> 0]

(* the call returns (or throws) to its HTTP route *)
Return(c, res) ==
    [c EXCEPT !.pc = "done", !.result = res, !.pend = NoPend, !.cur = NoRow,
              !.data = NoChanges, !.changes = NoChanges, !.phase = "none"]

--------------------------------------------------------------------------
(* services.ts: createReservation *)

createReservation(data) ==
    [IdleCall EXCEPT !.pc = "insert", !.op = "create", !.caller = "staff",
                     !.input = data, !.attempt = 1]

(* the row the INSERT statement builds: duration_hours || 2, status default *)
InsertedRow(data) ==
    [table_id |-> data.table_id, guest_name |-> data.guest_name,
     guest_phone |-> data.guest_phone, party_size |-> data.party_size,
     reservation_date |-> data.reservation_date,
     reservation_time |-> data.reservation_time,
     duration_hours |-> IF data.duration_hours = 0 THEN DefaultDuration
                        ELSE data.duration_hours,
     notes |-> data.notes, status |-> "active"]

ConflictMessage ==
    "Reservation conflicts with existing reservation on the same table and time"

(* error raised by an INSERT or UPDATE of row new with id newId, "" when   *)
(* the statement is accepted.  The BEFORE trigger runs before the CHECK    *)
(* and foreign-key constraints are tested.                                 *)
StatementError(rows, new, newId) ==
    IF check_reservation_overlap(rows, new, newId) THEN ConflictMessage
    ELSE IF new.party_size <= 0 THEN "23514"
    ELSE IF new.table_id \notin TableIds THEN "23503"
    ELSE ""

isConstraintViolation(err) ==
    err \in {ConflictMessage, "23514", "RACE_CONDITION_DETECTED"}

(* InsertAttempt with the retry test off by one (attempt <= maxRetries):   *)
(* a fourth attempt is made.  C4 does not hold of it.                      *)
InsertAttemptOffByOne(rows, c) ==
    LET new == InsertedRow(c.input)
        err == StatementError(rows, new, 0)
    IN IF err = ""
       THEN [c EXCEPT !.pc = "commit",
                      !.pend = [kind |-> "insert", id |-> 0, row |-> new,
                                haslog |-> FALSE, log |-> NoChanges]]
       ELSE IF isConstraintViolation(err)
       THEN IF c.attempt <= maxRetries
            THEN [c EXCEPT !.attempt = @ + 1]
            ELSE Return(c, Err("TABLE_UNAVAILABLE"))
       ELSE Return(c, Err(err))

(* one attempt of the retry loop: BEGIN and the INSERT statement *)
InsertAttempt(rows, c) ==
    LET new == InsertedRow(c.input)
        err == StatementError(rows, new, 0)
    IN IF err = ""
       THEN [c EXCEPT !.pc = "commit",
                      !.pend = [kind |-> "insert", id |-> 0, row |-> new,
                                haslog |-> FALSE, log |-> NoChanges]]
       ELSE IF isConstraintViolation(err)
       THEN IF c.attempt < maxRetries
            THEN [c EXCEPT !.attempt = @ + 1]
            ELSE Return(c, Err("TABLE_UNAVAILABLE"))
       ELSE Return(c, Err(err))

--------------------------------------------------------------------------
(* services.ts: calculateFieldChanges and the completion filter *)

OldValue(cur, f) ==
    IF f \in {"guest_phone", "notes"}
    THEN IF cur[f] = Null THEN "" ELSE cur[f]
    ELSE cur[f]

calculateFieldChanges(cur, data) ==
    [f \in { g \in DOMAIN data \cap UpdatableFields : data[g] # OldValue(cur, g) }
        |-> [old |-> OldValue(cur, f), new |-> data[f]]]

isCompletion(fieldChanges) ==
    /\ "status" \in DOMAIN fieldChanges
    /\ fieldChanges["status"].old = "active"
    /\ fieldChanges["status"].new = "completed"

(* filteredChanges deleting the status change of a completion only, the    *)
(* duration_hours change kept.  C15 does not hold of it.                   *)
filteredChangesKeepDuration(fieldChanges) ==
    IF isCompletion(fieldChanges)
    THEN [f \in DOMAIN fieldChanges \ {"status"} |-> fieldChanges[f]]
    ELSE fieldChanges

filteredChanges(fieldChanges) ==
    IF isCompletion(fieldChanges)
    THEN [f \in DOMAIN fieldChanges \ {"status", "duration_hours"} |-> fieldChanges[f]]
    ELSE fieldChanges

--------------------------------------------------------------------------
(* services.ts: updateReservation *)

(* after updateReservation: back to the route, or to the loop of           *)
(* autoCompleteExpiredReservations (completedCount++ on success, the catch *)
(* block on an error)                                                      *)
UpdateDone(c, res) ==
    IF c.caller = "sweep"
    THEN [c EXCEPT !.pc = "sweep", !.pend = NoPend, !.id = 0, !.cur = NoRow,
                   !.data = NoChanges, !.changes = NoChanges,
                   !.completedCount = IF res.ok THEN @ + 1 ELSE @]
    ELSE Return(c, res)

IsCompleteNow(data) ==
    /\ "complete_now" \in DOMAIN data /\ data["complete_now"]
    /\ "status" \in DOMAIN data /\ data["status"] = "completed"

WithField(data, f, v) ==
    [g \in DOMAIN data \cup {f} |-> IF g = f THEN v ELSE data[g]]

(* CompleteNowData with the 6-hour cap of the sweep applied to a manual   *)
(* completion as well.  C11 does not hold of it.                           *)
CompleteNowDataCapped(cur, data, t) ==
    IF IsCompleteNow(data) /\ cur.duration_hours = Indefinite
    THEN WithField(data, "duration_hours",
            Max2(MinDuration, Min2(AutoCompleteCap,
                 RoundTenths(t - StartInstant(cur.reservation_date, cur.reservation_time)))))
    ELSE data

CompleteNowData(cur, data, t) ==
    IF IsCompleteNow(data) /\ cur.duration_hours = Indefinite
    THEN WithField(data, "duration_hours",
            Max2(MinDuration,
                 RoundTenths(t - StartInstant(cur.reservation_date, cur.reservation_time))))
    ELSE data

(* NotStarted with durationMs < 0 for durationMs <= 0: a completion at the *)
(* very instant of the start goes through.  C31 does not hold of it.       *)
NotStartedStrict(cur, data, t) ==
    /\ IsCompleteNow(data) /\ cur.duration_hours = Indefinite
    /\ t - StartInstant(cur.reservation_date, cur.reservation_time) < 0

NotStarted(cur, data, t) ==
    /\ IsCompleteNow(data) /\ cur.duration_hours = Indefinite
    /\ t - StartInstant(cur.reservation_date, cur.reservation_time) <= 0

(* updateReservation up to the start of its transaction: read the current  *)
(* row, compute data.duration_hours and the filtered field changes         *)
UpdateRead(rows, t, c, id, data) ==
    IF id \notin 1..Len(rows)
    THEN UpdateDone(c, Err("Reservation not found"))
    ELSE IF NotStarted(rows[id], data, t)
    THEN UpdateDone(c, Err("Cannot complete a reservation that hasn't started yet"))
    ELSE [c EXCEPT !.pc = "update", !.id = id, !.cur = rows[id],
                   !.data = CompleteNowData(rows[id], data, t),
                   !.changes = filteredChanges(calculateFieldChanges(
                        rows[id], CompleteNowData(rows[id], data, t)))]

updateReservation(rows, t, id, data) ==
    UpdateRead(rows, t,
               [IdleCall EXCEPT !.op = "update", !.caller = "staff",
                                !.input = data, !.id = id],
               id, data)

(* UPDATE reservations SET <supplied fields> WHERE id *)
ApplyPatch(row, data) ==
    [f \in DOMAIN row |-> IF f \in DOMAIN data THEN data[f] ELSE row[f]]

ActivityLog(id, action, changes, snapshot) ==
    [reservation_id |-> id, action_type |-> action, field_changes |-> changes,
     reservation_snapshot |-> snapshot]

(* the transaction of updateReservation: UPDATE, then the activity log *)
UpdateTransaction(rows, c) ==
    LET new == ApplyPatch(rows[c.id], c.data)
        err == StatementError(rows, new, c.id)
    IN IF DOMAIN c.data \cap UpdatableFields = {}
       THEN UpdateDone(c, Err("No fields to update"))
       ELSE IF err # "" THEN UpdateDone(c, Err(err))
       ELSE [c EXCEPT !.pc = "commit",
                      !.pend = [kind |-> "update", id |-> c.id, row |-> new,
                                haslog |-> DOMAIN c.changes # {},
                                log |-> ActivityLog(c.id,
                                    IF "status" \in DOMAIN c.data
                                       /\ c.data["status"] = "cancelled"
                                    THEN "cancelled" ELSE "updated",
                                    c.changes, new)]]

--------------------------------------------------------------------------
(* services.ts: deleteReservation.  result.ok is the returned boolean; a   *)
(* thrown error is in result.error.                                        *)

deleteReservation(rows, id) ==
    IF id \notin 1..Len(rows)
    THEN Return([IdleCall EXCEPT !.op = "delete", !.caller = "staff", !.id = id],
                NoResult)
    ELSE [IdleCall EXCEPT !.pc = "delete", !.op = "delete", !.caller = "staff",
                          !.id = id, !.cur = rows[id]]

(* DeleteTransaction logging the row as it was read, the status of the    *)
(* snapshot not overwritten.  C16 does not hold of it.                     *)
DeleteTransactionStaleSnapshot(rows, c) ==
    LET new == [rows[c.id] EXCEPT !.status = "cancelled"]
        err == StatementError(rows, new, c.id)
    IN IF err # "" THEN Return(c, Err(err))
       ELSE [c EXCEPT !.pc = "commit",
                      !.pend = [kind |-> "update", id |-> c.id, row |-> new,
                                haslog |-> TRUE,
                                log |-> ActivityLog(c.id, "cancelled",
                                    [f \in {"status"} |->
                                        [old |-> c.cur.status, new |-> "cancelled"]],
                                    c.cur)]]

DeleteTransaction(rows, c) ==
    LET new == [rows[c.id] EXCEPT !.status = "cancelled"]
        err == StatementError(rows, new, c.id)
    IN IF err # "" THEN Return(c, Err(err))
       ELSE [c EXCEPT !.pc = "commit",
                      !.pend = [kind |-> "update", id |-> c.id, row |-> new,
                                haslog |-> TRUE,
                                log |-> ActivityLog(c.id, "cancelled",
                                    [f \in {"status"} |->
                                        [old |-> c.cur.status, new |-> "cancelled"]],
                                    [c.cur EXCEPT !.status = "cancelled"])]]

--------------------------------------------------------------------------
(* api-client.ts transaction: COMMIT of the statements the call executed *)

CommitRows(rows, c) ==
    IF c.pend.kind = "insert" THEN Append(rows, c.pend.row)
    ELSE [rows EXCEPT ![c.pend.id] = c.pend.row]

(* COMMIT keeping the UPDATE and losing the activity log written in the    *)
(* same transaction.  C17 does not hold of it.                             *)
CommitLogsLost(logs, c) == logs

CommitLogs(logs, c) ==
    IF c.pend.haslog THEN Append(logs, c.pend.log) ELSE logs

CommitCall(rows, c) ==
    IF c.pend.kind = "insert" THEN Return(c, Ok(Len(rows) + 1, 0))
    ELSE UpdateDone(c, Ok(c.pend.id, 0))

--------------------------------------------------------------------------
(* services.ts: autoCompleteExpiredReservations *)

(* regularExpiredQuery comparing the start, not the end, with NOW().  C8   *)
(* does not hold of it.                                                    *)
regularExpiredByStart(rows, t) ==
    { i \in 1..Len(rows) :
        /\ rows[i].duration_hours > 0
        /\ rows[i].status = "active"
        /\ StartInstant(rows[i].reservation_date, rows[i].reservation_time) < t }

regularExpiredReservations(rows, t) ==
    { i \in 1..Len(rows) :
        /\ rows[i].duration_hours > 0
        /\ rows[i].status = "active"
        /\ StartInstant(rows[i].reservation_date, rows[i].reservation_time)
              + TenthMinutes * rows[i].duration_hours < t }

indefiniteExpiredReservations(rows, t) ==
    { i \in 1..Len(rows) :
        /\ rows[i].duration_hours = Indefinite
        /\ rows[i].status = "active"
        /\ StartInstant(rows[i].reservation_date, rows[i].reservation_time)
              + IndefiniteExpiryHours * 60 < t }

(* the rows a SELECT returned, with the start instant the loop computes    *)
(* from the selected reservation_date and reservation_time                 *)
Selected(rows, ids) ==
    { [id |-> i,
       start |-> StartInstant(rows[i].reservation_date, rows[i].reservation_time)] :
        i \in ids }

(* actualDuration without Math.min(6, ...).  C9 does not hold of it. *)
actualDurationUncapped(start, t) ==
    Max2(MinDuration, RoundTenths(t - start))

actualDuration(start, t) ==
    Max2(MinDuration, Min2(AutoCompleteCap, RoundTenths(t - start)))

autoCompleteExpiredReservations(rows, t) ==
    [IdleCall EXCEPT !.pc = "sweep", !.op = "sweep", !.caller = "sweep",
                     !.phase = "regular",
                     !.queue = Selected(rows, regularExpiredReservations(rows, t))]

(* one iteration of either loop, up to the transaction of the              *)
(* updateReservation it calls, for the selected row r                      *)
SweepIteration(rows, t, c, r) ==
    UpdateRead(rows, t, [c EXCEPT !.queue = @ \ {r}], r.id,
               IF c.phase = "regular"
               THEN [status |-> "completed"]
               ELSE [status |-> "completed",
                     duration_hours |-> actualDuration(r.start, t)])

SweepIndefiniteQuery(rows, t, c) ==
    [c EXCEPT !.phase = "indefinite",
              !.queue = Selected(rows, indefiniteExpiredReservations(rows, t))]

SweepFinished(c) == Return(c, Ok(0, c.completedCount))

--------------------------------------------------------------------------
(* Execution of a call.  Successors is the effect of the next statement of *)
(* call c on the committed rows and logs; Run is the call run to its end   *)
(* with no other call in between.                                          *)

Outcome(rows, logs, c) == [rows |-> rows, logs |-> logs, c |-> c]

Successors(rows, logs, t, c) ==
    CASE c.pc = "insert" -> { Outcome(rows, logs, InsertAttempt(rows, c)) }
      [] c.pc = "update" -> { Outcome(rows, logs, UpdateTransaction(rows, c)) }
      [] c.pc = "delete" -> { Outcome(rows, logs, DeleteTransaction(rows, c)) }
      [] c.pc = "commit" ->
            { Outcome(CommitRows(rows, c), CommitLogs(logs, c), CommitCall(rows, c)) }
      [] c.pc = "sweep" ->
            IF c.queue # {}
            THEN { Outcome(rows, logs, SweepIteration(rows, t, c, r)) : r \in c.queue }
            ELSE IF c.phase = "regular"
            THEN { Outcome(rows, logs, SweepIndefiniteQuery(rows, t, c)) }
            ELSE { Outcome(rows, logs, SweepFinished(c)) }
      [] OTHER -> {}

RECURSIVE Run(_, _, _, _)
Run(rows, logs, t, c) ==
    IF c.pc = "done" THEN { Outcome(rows, logs, c) }
    ELSE UNION { Run(s.rows, s.logs, t, s.c) : s \in Successors(rows, logs, t, c) }

Init ==
    /\ reservations = <<>>
    /\ activity_logs = <<>>
    /\ now = StartNow
    /\ calls = [p \in Procs |-> IdleCall]

(* a call served from its start to its return, the log holding at most    *)
(* maxLogs entries afterwards                                              *)
ServeWithin(c, maxLogs) ==
    \E s \in Run(reservations, activity_logs, now, c) :
        /\ Len(s.rows) <= MaxRes
        /\ Len(s.logs) <= maxLogs
        /\ reservations' = s.rows
        /\ activity_logs' = s.logs
        /\ calls' = [calls EXCEPT ![1] = s.c]
        /\ now' = now

Serve(c) == ServeWithin(c, MaxLogs)

CreateReservation ==
    \E data \in CreateInputs : Serve(createReservation(data))

UpdateReservation ==
    \E id \in 1..MaxRes, data \in UpdateInputs :
        Serve(updateReservation(reservations, now, id, data))

DeleteReservation ==
    \E id \in 1..MaxRes : Serve(deleteReservation(reservations, id))

AutoComplete ==
    Serve(autoCompleteExpiredReservations(reservations, now))

Tick ==
    /\ now < StartNow + MaxTicks * TickMinutes
    /\ now' = now + TickMinutes
    /\ UNCHANGED <<reservations, activity_logs, calls>>

(* calls executed one at a time *)
Next ==
    \/ CreateReservation
    \/ UpdateReservation
    \/ DeleteReservation
    \/ AutoComplete
    \/ Tick

Spec == Init /\ [][Next]_vars

(* the scheduler sweeping while staff book, cancel and complete by hand,   *)
(* calls executed one at a time                                            *)
CompleteNow ==
    \E id \in 1..MaxRes :
        Serve(updateReservation(reservations, now, id,
                                [status |-> "completed", complete_now |-> TRUE]))

NextExpiry ==
    \/ CreateReservation
    \/ DeleteReservation
    \/ CompleteNow
    \/ AutoComplete
    \/ Tick

SpecExpiry == Init /\ [][NextExpiry]_vars

--------------------------------------------------------------------------
(* Calls served concurrently: every database statement is one step, and a  *)
(* statement sees the committed rows (READ COMMITTED).                     *)

ConcCreateInputs ==
    { NewInput(1, 0, 18 * 60, 40, 2),           \* day 0, 18:00-22:00
      NewInput(1, 0, 22 * 60, Indefinite, 2) }  \* day 0, 22:00, indefinite

ConcUpdateInputs ==
    { [notes |-> "n1"],
      [status |-> "completed", complete_now |-> TRUE] }

Free(p) == calls[p].pc \in {"idle", "done"}

InFlightCreates ==
    Cardinality({ q \in Procs : calls[q].op = "create" /\ ~Free(q) })

(* a row written by a transaction that has not committed is locked         *)
(* against the UPDATE of another transaction                               *)
RowLocked(p, id) ==
    \E q \in Procs \ {p} :
        calls[q].pend.kind = "update" /\ calls[q].pend.id = id

Begin(p, c) ==
    /\ Free(p)
    /\ calls' = [calls EXCEPT ![p] = c]
    /\ UNCHANGED <<reservations, activity_logs, now>>

BeginCreate(p) ==
    /\ Len(reservations) + InFlightCreates < MaxRes
    /\ \E data \in ConcCreateInputs : Begin(p, createReservation(data))

BeginUpdate(p) ==
    \E id \in 1..MaxRes, data \in ConcUpdateInputs :
        Begin(p, updateReservation(reservations, now, id, data))

BeginDelete(p) ==
    \E id \in 1..MaxRes : Begin(p, deleteReservation(reservations, id))

BeginSweep(p) ==
    Begin(p, autoCompleteExpiredReservations(reservations, now))

Statement(p) ==
    \E s \in Successors(reservations, activity_logs, now, calls[p]) :
        /\ Len(s.logs) <= MaxLogs
        /\ reservations' = s.rows
        /\ activity_logs' = s.logs
        /\ calls' = [calls EXCEPT ![p] = s.c]
        /\ now' = now

Insert(p) == calls[p].pc = "insert" /\ Statement(p)

Update(p) ==
    /\ calls[p].pc = "update"
    /\ ~RowLocked(p, calls[p].id)
    /\ Statement(p)

Delete(p) ==
    /\ calls[p].pc = "delete"
    /\ ~RowLocked(p, calls[p].id)
    /\ Statement(p)

Commit(p) == calls[p].pc = "commit" /\ Statement(p)

Sweep(p) == calls[p].pc = "sweep" /\ Statement(p)

(* two members of staff booking and cancelling at the same time *)
NextBooking ==
    \/ \E p \in Procs : BeginCreate(p)
    \/ \E p \in Procs : BeginDelete(p)
    \/ \E p \in Procs : Insert(p)
    \/ \E p \in Procs : Delete(p)
    \/ \E p \in Procs : Commit(p)

SpecBooking == Init /\ [][NextBooking]_vars

(* a member of staff (call 1) working while the scheduler (call 2) runs    *)
(* the sweep                                                               *)
Staff == CHOOSE p \in Procs : \A q \in Procs : p <= q
Scheduler == CHOOSE p \in Procs : \A q \in Procs : p >= q

NextSweep ==
    \/ BeginCreate(Staff)
    \/ BeginUpdate(Staff)
    \/ BeginDelete(Staff)
    \/ BeginSweep(Scheduler)
    \/ Insert(Staff)
    \/ Delete(Staff)
    \/ \E p \in Procs : Update(p)
    \/ \E p \in Procs : Commit(p)
    \/ Sweep(Scheduler)
    \/ Tick

SpecSweep == Init /\ [][NextSweep]_vars

SpecBookingFair ==
    /\ SpecBooking
    /\ \A p \in Procs : WF_vars(Insert(p)) /\ WF_vars(Commit(p))

--------------------------------------------------------------------------
(* createReservation on the inputs a validation would have to judge *)

CreateInputCase ==
    \E data \in InputCases : Serve(createReservation(data))

NextInput == CreateInputCase \/ Tick

SpecInput == Init /\ [][NextInput]_vars

--------------------------------------------------------------------------
(* checkTableAvailability asked about candidates around one existing       *)
(* indefinite reservation                                                  *)

AvailExisting ==
    { NewInput(1, 1, 18 * 60, Indefinite, 2),   \* day 1, 18:00, indefinite
      NewInput(1, 1, 22 * 60, Indefinite, 2),   \* day 1, 22:00, indefinite
      NewInput(1, 1, 60, Indefinite, 2) }       \* day 1, 01:00, indefinite

MaxDate == 3

Candidates ==
    { NewInput(1, d, tm, dur, 2) :
        d \in 0..MaxDate,
        tm \in {0, 60, 120, 12 * 60, 18 * 60, 22 * 60, 23 * 60 + 45},
        dur \in {Indefinite, 10, 40, 80, 120} }

CreateExisting ==
    /\ reservations = <<>>
    /\ \E data \in AvailExisting : Serve(createReservation(data))

CheckAvailability ==
    \E cand \in Candidates :
        /\ calls' = [calls EXCEPT ![1] =
                Return([IdleCall EXCEPT !.op = "check", !.input = cand],
                       [NoResult EXCEPT !.ok =
                            checkTableAvailability(reservations, cand.table_id,
                                cand.reservation_date, cand.reservation_time,
                                cand.duration_hours, 0)])]
        /\ UNCHANGED <<reservations, activity_logs, now>>

NextAvail == CreateExisting \/ CheckAvailability

SpecAvail == Init /\ [][NextAvail]_vars

--------------------------------------------------------------------------
(* Properties *)

Ids == 1..Len(reservations)

(* the interval a reservation occupies: [start, start + duration), or      *)
(* [start, 06:00 of the day after its reservation_date) when indefinite    *)
Start(r) == StartInstant(r.reservation_date, r.reservation_time)
End(r) == EndInstant(r.reservation_date, r.reservation_time, r.duration_hours)

RowsOverlap(r1, r2) == IntervalsOverlap(Start(r1), End(r1), Start(r2), End(r2))

(* C1: with calls executed one at a time, no table ever has two active     *)
(* reservations whose computed intervals overlap.                          *)
C1_NoActiveOverlap ==
    \A i, j \in Ids :
        (/\ i # j
         /\ reservations[i].table_id = reservations[j].table_id
         /\ reservations[i].status = "active"
         /\ reservations[j].status = "active")
        => ~RowsOverlap(reservations[i], reservations[j])

(* C2: of two createReservation calls for overlapping intervals on the     *)
(* same table that run concurrently, at most one commits its reservation.  *)
(* The inputs of SpecBooking are such that overlapping bookings made one   *)
(* after the other are rejected, so two successful calls whose rows are    *)
(* both active and overlap have run concurrently.                          *)
C2_AtMostOneCommits ==
    \A p, q \in Procs :
        (/\ p # q
         /\ calls[p].op = "create" /\ calls[p].pc = "done" /\ calls[p].result.ok
         /\ calls[q].op = "create" /\ calls[q].pc = "done" /\ calls[q].result.ok)
        => LET r1 == reservations[calls[p].result.id]
               r2 == reservations[calls[q].result.id]
           IN ~(/\ r1.table_id = r2.table_id
                /\ r1.status = "active" /\ r2.status = "active"
                /\ RowsOverlap(r1, r2))

(* C3: around an active indefinite reservation R (the only reservation),   *)
(* checkTableAvailability on R's table answers false exactly for the       *)
(* candidates whose interval overlaps [S, 06:00 of the day after S's date).*)
C3_IndefiniteBlocksUntilCap ==
    (/\ calls[1].op = "check"
     /\ Len(reservations) = 1
     /\ reservations[1].status = "active"
     /\ reservations[1].duration_hours = Indefinite
     /\ reservations[1].table_id = calls[1].input.table_id)
    => (calls[1].result.ok <=>
            ~IntervalsOverlap(
                Start(calls[1].input), End(calls[1].input),
                Start(reservations[1]), End(reservations[1])))

(* C4: createReservation makes at most 3 insert attempts and then ends:    *)
(* TABLE_UNAVAILABLE is returned only after the third attempt, a row is    *)
(* added only by the call whose attempt succeeded and which returns it,    *)
(* and every started call returns.                                         *)
C4_AttemptsBounded ==
    \A p \in Procs :
        calls[p].op = "create" =>
            /\ calls[p].attempt \in 1..maxRetries
            /\ (calls[p].pc = "done" /\ calls[p].result.error = "TABLE_UNAVAILABLE")
                    => calls[p].attempt = maxRetries
            /\ (calls[p].pc = "done" /\ calls[p].result.ok)
                    => /\ calls[p].result.id \in Ids
                       /\ [reservations[calls[p].result.id] EXCEPT !.status = "active"]
                            = InsertedRow(calls[p].input)

C4_RowOnlyFromSuccess ==
    Len(reservations') > Len(reservations) =>
        \E p \in Procs :
            /\ calls[p].op = "create" /\ calls[p].pc = "commit"
            /\ calls'[p].pc = "done" /\ calls'[p].result.ok
            /\ calls'[p].result.id = Len(reservations')
            /\ Len(reservations') = Len(reservations) + 1

C4_Returns ==
    \A p \in Procs :
        (calls[p].op = "create" /\ calls[p].pc = "insert")
            ~> (calls[p].op = "create" /\ calls[p].pc = "done")

C4_CreateTerminates ==
    /\ []C4_AttemptsBounded
    /\ [][C4_RowOnlyFromSuccess]_vars
    /\ C4_Returns

(* a third attempt failed and TABLE_UNAVAILABLE was returned *)
C4_Witness ==
    \E p \in Procs :
        /\ calls[p].op = "create" /\ calls[p].pc = "done"
        /\ calls[p].result.error = "TABLE_UNAVAILABLE"
        /\ calls[p].attempt = maxRetries

(* services.ts generateTimeSlots: 12:00..23:45 and 00:00..02:00 by 15 min *)
IsTimeSlot(tm) ==
    /\ tm % 15 = 0
    /\ (tm >= 12 * 60 /\ tm < 24 * 60) \/ (tm >= 0 /\ tm <= 2 * 60)

Today(t) == t \div DayMinutes

InvalidInput(data, t) ==
    \/ ~IsTimeSlot(data.reservation_time)
    \/ (data.table_id \in TableIds /\ data.party_size > max_capacity[data.table_id])
    \/ data.reservation_date < Today(t)

(* C5: createReservation rejects, and stores nothing for, every input      *)
(* whose time is not a slot, whose party exceeds the table's capacity or   *)
(* whose date is in the past.                                              *)
C5_InvalidInputRejected ==
    [][(/\ calls'[1] # calls[1]
        /\ calls'[1].op = "create"
        /\ InvalidInput(calls'[1].input, now))
       => (~calls'[1].result.ok /\ reservations' = reservations)]_vars

(* C6: a status changes only from active to completed or cancelled, and    *)
(* no reservation row is ever removed.                                     *)
C6_StatusMonotone ==
    [][/\ Len(reservations') >= Len(reservations)
       /\ \A i \in Ids :
            reservations'[i].status # reservations[i].status =>
                /\ reservations[i].status = "active"
                /\ reservations'[i].status \in {"completed", "cancelled"}]_vars

(* C7: no step of autoCompleteExpiredReservations writes an activity log   *)
(* entry, also when staff edits interleave with the sweep.                 *)
C7_SweepWritesNoLog ==
    [][calls'[Scheduler] # calls[Scheduler] => activity_logs' = activity_logs]_vars

(* a step that is one invocation of autoCompleteExpiredReservations *)
SweepStep == AutoComplete

(* C8: the sweep changes a finite reservation only if it is active and     *)
(* start + duration < now, and then only its status, to completed.         *)
C8_FiniteSweepFrame ==
    [][SweepStep =>
        \A i \in Ids :
            (reservations[i].duration_hours # Indefinite
             /\ reservations'[i] # reservations[i])
            => /\ reservations[i].status = "active"
               /\ Start(reservations[i])
                    + TenthMinutes * reservations[i].duration_hours < now
               /\ reservations'[i] = [reservations[i] EXCEPT !.status = "completed"]]_vars

(* the only reservation, finite, was completed by the sweep *)
C8_Witness ==
    /\ calls[1].op = "sweep" /\ calls[1].result.count = 1
    /\ Len(reservations) = 1
    /\ reservations[1].status = "completed"
    /\ reservations[1].duration_hours = 40

(* C9: the sweep completes an indefinite reservation only if it is active  *)
(* and start + 6h < now, and stores status completed with a duration_hours *)
(* between 0.1 and 6.                                                      *)
C9_IndefiniteSweepCapped ==
    [][SweepStep =>
        \A i \in Ids :
            (reservations[i].duration_hours = Indefinite
             /\ reservations'[i] # reservations[i])
            => /\ reservations[i].status = "active"
               /\ Start(reservations[i]) + 6 * 60 < now
               /\ reservations'[i].duration_hours \in 1..60
               /\ reservations'[i] =
                    [reservations[i] EXCEPT !.status = "completed",
                        !.duration_hours = reservations'[i].duration_hours]]_vars

(* the only reservation, indefinite, was completed by a sweep run more     *)
(* than 6 hours after its start                                            *)
C9_Witness ==
    /\ calls[1].op = "sweep" /\ calls[1].result.count = 1
    /\ Len(reservations) = 1
    /\ reservations[1].status = "completed"
    /\ reservations[1].duration_hours = 60
    /\ now > Start(reservations[1]) + 6 * 60

(* C10: a sweep run right after a sweep changes no reservation and returns *)
(* completedCount = 0.                                                     *)
C10_SweepIdempotent ==
    \A s1 \in Run(reservations, activity_logs, now,
                  autoCompleteExpiredReservations(reservations, now)) :
        \A s2 \in Run(s1.rows, s1.logs, now,
                      autoCompleteExpiredReservations(s1.rows, now)) :
            s2.rows = s1.rows /\ s2.c.result.count = 0

--------------------------------------------------------------------------
(* Manual completion of indefinite reservations, minutes to hours after    *)
(* their start                                                             *)

CompleteInputs ==
    { NewInput(1, 0, 12 * 60 + 15, Indefinite, 2),  \* day 0, 12:15, indefinite
      NewInput(1, 0, 18 * 60, Indefinite, 2),       \* day 0, 18:00, indefinite
      NewInput(1, 0, 30, 10, 2),                    \* day 0, 00:30-01:30
      NewInput(2, 0, 22 * 60, Indefinite, 2) }      \* day 0, 22:00, indefinite

CreateForCompletion ==
    \E data \in CompleteInputs : Serve(createReservation(data))

(* two minutes pass *)
Minutes ==
    /\ now % 60 = 0
    /\ now' = now + 2
    /\ UNCHANGED <<reservations, activity_logs, calls>>

NextComplete == CreateForCompletion \/ CompleteNow \/ Tick \/ Minutes

SpecComplete == Init /\ [][NextComplete]_vars

--------------------------------------------------------------------------
(* getReservationsWithCrossDay asked about the dates around reservations   *)
(* of day 1                                                                *)

CrossDayExisting ==
    { NewInput(1, 1, 22 * 60, 40, 2),           \* day 1, 22:00-02:00
      NewInput(1, 1, 23 * 60 + 30, 10, 2),      \* day 1, 23:30-00:30
      NewInput(2, 1, 23 * 60, 10, 2),           \* day 1, 23:00-24:00
      NewInput(2, 1, 20 * 60, 20, 2),           \* day 1, 20:00-22:00
      NewInput(2, 1, 18 * 60, Indefinite, 2) }  \* day 1, 18:00, indefinite

StatusFilters == {"active", "cancelled", "all"}

CreateCrossDay ==
    \E data \in CrossDayExisting : Serve(createReservation(data))

QueryCrossDay ==
    \E date \in 0..MaxDate, statusFilter \in StatusFilters :
        /\ calls' = [calls EXCEPT ![1] =
                Return([IdleCall EXCEPT !.op = "crossday",
                            !.input = [date |-> date, statusFilter |-> statusFilter]],
                       getReservationsWithCrossDay(reservations, date, statusFilter))]
        /\ UNCHANGED <<reservations, activity_logs, now>>

NextCrossDay == CreateCrossDay \/ DeleteReservation \/ QueryCrossDay

SpecCrossDay == Init /\ [][NextCrossDay]_vars

(* C12: a finite reservation dated date - 1 that matches statusFilter is   *)
(* in previousDay of getReservationsWithCrossDay(date, statusFilter)       *)
(* exactly when its end instant is strictly after 00:00 of date.           *)
C12_PreviousDayIffEndsAfterMidnight ==
    calls[1].op = "crossday" =>
        \A i \in Ids :
            (/\ reservations[i].duration_hours # Indefinite
             /\ reservations[i].reservation_date = calls[1].input.date - 1
             /\ calls[1].input.statusFilter \in {"all", reservations[i].status})
            => (i \in calls[1].result.previousDay
                    <=> End(reservations[i]) > calls[1].input.date * 1440)

(* C13: an indefinite reservation dated D that matches statusFilter is in  *)
(* previousDay for D + 1, and in neither list for D + 2 or later.          *)
C13_IndefiniteOnNextDayOnly ==
    calls[1].op = "crossday" =>
        \A i \in Ids :
            (/\ reservations[i].duration_hours = Indefinite
             /\ calls[1].input.statusFilter \in {"all", reservations[i].status})
            => /\ calls[1].input.date = reservations[i].reservation_date + 1
                    => i \in calls[1].result.previousDay
               /\ calls[1].input.date >= reservations[i].reservation_date + 2
                    => i \notin calls[1].result.sameDay \cup calls[1].result.previousDay

(* the indefinite reservation of day 1, cancelled, listed for day 2 under  *)
(* the filter "cancelled" and absent for day 3                             *)
C13_Witness ==
    /\ calls[1].op = "crossday"
    /\ calls[1].input.statusFilter = "cancelled"
    /\ \E i \in Ids :
            /\ reservations[i].duration_hours = Indefinite
            /\ reservations[i].status = "cancelled"
            /\ \/ /\ calls[1].input.date = 2
                  /\ i \in calls[1].result.previousDay
               \/ /\ calls[1].input.date = 3
                  /\ i \notin calls[1].result.all

--------------------------------------------------------------------------
(* Staff editing, completing and cancelling reservations, one call at a    *)
(* time, with room in the log for an edit after a cancellation             *)

MaxEditLogs == 2

EditCreateInputs ==
    { NewInput(1, 0, 18 * 60, 40, 2),           \* day 0, 18:00-22:00
      NewInput(1, 0, 22 * 60, Indefinite, 2) }  \* day 0, 22:00, indefinite

EditInputs ==
    { [guest_phone |-> "", party_size |-> 4],
      [status |-> "active", notes |-> "n1"],
      [status |-> "cancelled", notes |-> "n2"] }

CreateForEdit ==
    \E data \in EditCreateInputs :
        ServeWithin(createReservation(data), MaxEditLogs)

EditReservation ==
    \E id \in 1..MaxRes, data \in EditInputs :
        ServeWithin(updateReservation(reservations, now, id, data), MaxEditLogs)

CancelReservation ==
    \E id \in 1..MaxRes :
        ServeWithin(deleteReservation(reservations, id), MaxEditLogs)

NextEdit == CreateForEdit \/ EditReservation \/ CancelReservation

SpecEdit == Init /\ [][NextEdit]_vars

(* the stored value of field f as the field diff compares it *)
Normalized(r, f) ==
    IF f \in {"guest_phone", "notes"} /\ r[f] = Null THEN "" ELSE r[f]

(* the supplied fields of patch data that differ from the stored row r *)
Differing(r, data) ==
    { f \in DOMAIN data \ {"complete_now"} : data[f] # Normalized(r, f) }

(* C14: an updateReservation call that does not change status writes      *)
(* exactly one entry, with action_type updated and field_changes holding   *)
(* exactly the supplied fields that differ from the stored values, when    *)
(* some field differs, and writes no entry when none differs.  (Stated of  *)
(* the calls that succeed.)                                                *)
C14_EditLoggedOnce ==
    [][EditReservation =>
        LET id == calls'[1].id
            data == calls'[1].input
        IN (/\ id \in Ids
            /\ calls'[1].result.ok
            /\ ("status" \in DOMAIN data
                    => data["status"] = reservations[id].status))
           => IF Differing(reservations[id], data) = {}
              THEN activity_logs' = activity_logs
              ELSE /\ Len(activity_logs') = Len(activity_logs) + 1
                   /\ SubSeq(activity_logs', 1, Len(activity_logs)) = activity_logs
                   /\ LET e == activity_logs'[Len(activity_logs')]
                      IN /\ e.reservation_id = id
                         /\ e.action_type = "updated"
                         /\ e.field_changes =
                              [f \in Differing(reservations[id], data) |->
                                  [old |-> Normalized(reservations[id], f),
                                   new |-> data[f]]]]_vars

--------------------------------------------------------------------------
(* Completion by hand: staff book, time passes, and an active reservation  *)
(* is completed with a patch that may carry other fields as well.          *)

FinishCreateInputs ==
    { NewInput(1, 0, 12 * 60 + 15, Indefinite, 2) }  \* day 0, 12:15, indefinite

CreateForFinish ==
    \E data \in FinishCreateInputs :
        ServeWithin(createReservation(data), MaxEditLogs)

FinishInputs ==
    { [status |-> "completed", complete_now |-> TRUE],
      [status |-> "completed", complete_now |-> TRUE, notes |-> "n1"],
      [status |-> "completed", notes |-> ""],
      [status |-> "completed", duration_hours |-> 20, party_size |-> 4] }

FinishReservation ==
    \E id \in 1..MaxRes, data \in FinishInputs :
        ServeWithin(updateReservation(reservations, now, id, data), MaxEditLogs)

NextFinish == CreateForFinish \/ FinishReservation

SpecFinish == Init /\ [][NextFinish]_vars

(* C15: when updateReservation completes an active reservation, the status *)
(* change and the duration_hours change are left out of the log: no entry  *)
(* is written if no other supplied field differs, and otherwise exactly    *)
(* one entry, whose field_changes holds those other fields and neither     *)
(* status nor duration_hours.                                              *)
C15_CompletionLeftOutOfLog ==
    [][FinishReservation =>
        LET id == calls'[1].id
            data == calls'[1].input
            others == IF id \in Ids
                      THEN Differing(reservations[id], data)
                              \ {"status", "duration_hours"}
                      ELSE {}
        IN (/\ id \in Ids
            /\ calls'[1].result.ok
            /\ reservations[id].status = "active"
            /\ data["status"] = "completed")
           => /\ reservations'[id].status = "completed"
              /\ IF others = {}
                 THEN activity_logs' = activity_logs
                 ELSE /\ Len(activity_logs') = Len(activity_logs) + 1
                      /\ SubSeq(activity_logs', 1, Len(activity_logs)) = activity_logs
                      /\ LET e == activity_logs'[Len(activity_logs')]
                         IN /\ e.reservation_id = id
                            /\ e.field_changes =
                                 [f \in others |->
                                     [old |-> Normalized(reservations[id], f),
                                      new |-> data[f]]]]_vars

(* an indefinite reservation completed by hand together with a note: the   *)
(* stored duration changed, and the one entry holds the note alone         *)
C15_Witness ==
    /\ calls[1].op = "update"
    /\ calls[1].result.ok
    /\ "complete_now" \in DOMAIN calls[1].input
    /\ calls[1].id \in Ids
    /\ reservations[calls[1].id].status = "completed"
    /\ reservations[calls[1].id].duration_hours > 0
    /\ Len(activity_logs) = 2
    /\ activity_logs[2].reservation_id = calls[1].id
    /\ DOMAIN activity_logs[2].field_changes = {"notes"}

--------------------------------------------------------------------------
(* C16: every operation that changes a reservation's status to cancelled   *)
(* (deleteReservation, or updateReservation with status cancelled) writes  *)
(* exactly one activity log entry for that reservation, with action_type   *)
(* cancelled and a full snapshot of the reservation whose status is        *)
(* cancelled.                                                              *)
C16_CancellationLogged ==
    [][\A id \in Ids :
        (/\ id \in 1..Len(reservations')
         /\ reservations[id].status # "cancelled"
         /\ reservations'[id].status = "cancelled")
        => /\ Len(activity_logs') = Len(activity_logs) + 1
           /\ SubSeq(activity_logs', 1, Len(activity_logs)) = activity_logs
           /\ LET e == activity_logs'[Len(activity_logs')]
              IN /\ e.reservation_id = id
                 /\ e.action_type = "cancelled"
                 /\ DOMAIN e.reservation_snapshot = DOMAIN reservations[id]
                 /\ e.reservation_snapshot = reservations'[id]
                 /\ e.reservation_snapshot.status = "cancelled"]_vars

(* an active reservation was cancelled through updateReservation *)
C16_Witness ==
    /\ calls[1].op = "update"
    /\ calls[1].result.ok
    /\ calls[1].id \in Ids
    /\ reservations[calls[1].id].status = "cancelled"
    /\ activity_logs # <<>>
    /\ LET e == activity_logs[Len(activity_logs)]
       IN /\ e.reservation_id = calls[1].id
          /\ e.action_type = "cancelled"
          /\ "status" \in DOMAIN e.field_changes
          /\ e.field_changes["status"].old = "active"

--------------------------------------------------------------------------
(* The transaction of updateReservation and deleteReservation, statement   *)
(* by statement, two requests at a time: the UPDATE may be rejected by the *)
(* overlap trigger, and the insert of the activity log may fail, in which  *)
(* case transaction() rolls back and rethrows.                             *)

LogFailure == "Failed to create activity log"

LogInsertFails(p) ==
    /\ calls[p].pc = "commit"
    /\ calls[p].pend.haslog
    /\ calls' = [calls EXCEPT ![p] = UpdateDone(calls[p], Err(LogFailure))]
    /\ UNCHANGED <<reservations, activity_logs, now>>

NextAtomic ==
    \/ BeginCreate(Staff)
    \/ BeginUpdate(Staff)
    \/ \E p \in Procs : BeginDelete(p)
    \/ Insert(Staff)
    \/ Update(Staff)
    \/ \E p \in Procs : Delete(p)
    \/ \E p \in Procs : Commit(p)
    \/ \E p \in Procs : LogInsertFails(p)

SpecAtomic == Init /\ [][NextAtomic]_vars

(* call p is inside the transaction of updateReservation or                *)
(* deleteReservation                                                       *)
InTransaction(p) ==
    /\ calls[p].op \in {"update", "delete"}
    /\ calls[p].pc \in {"update", "delete", "commit"}

(* C17: a reservation mutation and its activity log are written as one     *)
(* unit.  A step of updateReservation or deleteReservation that fails      *)
(* (UPDATE rejected by the trigger, log insert failed) leaves the rows and *)
(* the log as they were; the row written by a logged operation and its     *)
(* entry become visible in the same step, and the log changes in no other  *)
(* way.                                                                    *)
C17_MutationAndLogAtomic ==
    [][/\ \A p \in Procs :
            (InTransaction(p) /\ calls'[p].pc = "done" /\ ~calls'[p].result.ok)
            => /\ reservations' = reservations
               /\ activity_logs' = activity_logs
       /\ \A p \in Procs :
            (/\ InTransaction(p) /\ calls[p].pend.haslog
             /\ calls'[p].pc = "done" /\ calls'[p].result.ok)
            => /\ reservations' =
                    [reservations EXCEPT ![calls[p].pend.id] = calls[p].pend.row]
               /\ activity_logs' = Append(activity_logs, calls[p].pend.log)
       /\ activity_logs' # activity_logs
            => \E p \in Procs :
                /\ InTransaction(p) /\ calls[p].pend.haslog
                /\ calls'[p].result.ok
                /\ reservations' =
                    [reservations EXCEPT ![calls[p].pend.id] = calls[p].pend.row]
                /\ activity_logs' = Append(activity_logs, calls[p].pend.log)
       /\ \A id \in Ids :
            reservations'[id] # reservations[id]
            => \E p \in Procs :
                /\ InTransaction(p) /\ calls[p].pend.id = id
                /\ calls'[p].result.ok
                /\ calls[p].pend.haslog
                    => activity_logs' = Append(activity_logs, calls[p].pend.log)
      ]_vars

(* a cancellation whose log insert failed: the reservation is still active *)
(* and the log is empty                                                    *)
C17_Witness ==
    \E p \in Procs :
        /\ calls[p].op = "delete"
        /\ calls[p].pc = "done"
        /\ calls[p].result.error = LogFailure
        /\ calls[p].id \in Ids
        /\ reservations[calls[p].id].status = "active"
        /\ activity_logs = <<>>

--------------------------------------------------------------------------
(* services.ts: getReservationById.  The row with the given id joined with *)
(* its table (and room), whatever its status; null when there is none.     *)

(* getReservationById selecting active reservations only.  C18 does not    *)
(* hold of it.                                                             *)
getReservationByIdActiveOnly(rows, id) ==
    IF /\ id \in 1..Len(rows)
       /\ rows[id].table_id \in TableIds
       /\ rows[id].status = "active"
    THEN rows[id]
    ELSE NoRow

getReservationById(rows, id) ==
    IF id \in 1..Len(rows) /\ rows[id].table_id \in TableIds
    THEN rows[id]
    ELSE NoRow

(* C18: after deleteReservation(id) has succeeded on an existing           *)
(* reservation, getReservationById(id) still returns the row, with status  *)
(* cancelled and every other field as it was before the call.              *)
C18_CancelledRowKept ==
    [][CancelReservation =>
        LET id == calls'[1].id
        IN (id \in Ids /\ calls'[1].result.ok)
           => getReservationById(reservations', id) =
                 [reservations[id] EXCEPT !.status = "cancelled"]]_vars

(* a reservation whose notes had been edited was cancelled by              *)
(* deleteReservation and is still returned, notes included                 *)
C18_Witness ==
    /\ calls[1].op = "delete"
    /\ calls[1].result.ok
    /\ getReservationById(reservations, calls[1].id) # NoRow
    /\ getReservationById(reservations, calls[1].id).status = "cancelled"
    /\ getReservationById(reservations, calls[1].id).notes = "n1"
    /\ Len(activity_logs) = 2
    /\ activity_logs[1].action_type = "updated"

--------------------------------------------------------------------------
(* C19: updateReservation and deleteReservation applied to a reservation   *)
(* whose status is already cancelled fail with an error and leave the      *)
(* reservation rows and the activity log unchanged.                        *)
C19_CancelledIsFinal ==
    [][(EditReservation \/ CancelReservation) =>
        LET id == calls'[1].id
        IN (id \in Ids /\ reservations[id].status = "cancelled")
           => /\ ~calls'[1].result.ok
              /\ calls'[1].result.error # ""
              /\ reservations' = reservations
              /\ activity_logs' = activity_logs]_vars

--------------------------------------------------------------------------
(* C20: in every reachable state the duration_hours of every stored        *)
(* reservation is -1 (indefinite) or positive and at most 12 hours,        *)
(* whatever calls produced it.                                             *)
C20_DurationInRange ==
    \A id \in Ids :
        \/ reservations[id].duration_hours = Indefinite
        \/ /\ reservations[id].duration_hours > 0
           /\ reservations[id].duration_hours <= 12 * 10

--------------------------------------------------------------------------
(* C21: in every reachable state the reservation_time of every stored      *)
(* reservation is a slot of the operating window: a multiple of 15         *)
(* minutes between 12:00 and 02:00 of the next day.                        *)
C21_TimeInWindow ==
    \A id \in Ids : IsTimeSlot(reservations[id].reservation_time)

--------------------------------------------------------------------------
(* the slot (table, date, time, duration) of input data is that of row r *)
SameSlot(r, data) ==
    /\ r.table_id = data.table_id
    /\ r.reservation_date = data.reservation_date
    /\ r.reservation_time = data.reservation_time
    /\ r.duration_hours = data.duration_hours

(* no reservation that is not cancelled overlaps, on the table of data,   *)
(* the interval data asks for                                              *)
SlotFree(rows, data) ==
    \A j \in 1..Len(rows) :
        (rows[j].status # "cancelled" /\ rows[j].table_id = data.table_id)
        => ~RowsOverlap(rows[j], data)

(* C22: cancelled reservations never block.  When a createReservation asks *)
(* for the exact table, date, time and duration of a cancelled reservation *)
(* and no other reservation overlaps that interval,                        *)
(* checkTableAvailability returns true for the slot and the                *)
(* createReservation succeeds.                                             *)
C22_CancelledNeverBlocks ==
    [][CreateReservation =>
        LET data == calls'[1].input
        IN (/\ \E id \in Ids : /\ reservations[id].status = "cancelled"
                               /\ SameSlot(reservations[id], data)
            /\ SlotFree(reservations, data))
           => /\ checkTableAvailability(reservations, data.table_id,
                    data.reservation_date, data.reservation_time,
                    data.duration_hours, 0)
              /\ calls'[1].result.ok]_vars

--------------------------------------------------------------------------
(* C23: for every indefinite reservation that starts at one of the slots   *)
(* of generateTimeSlots, the interval it blocks in checkTableAvailability, *)
(* from its start to 06:00 of the day after its reservation_date, is at    *)
(* most 18 hours long.                                                     *)
C23_IndefiniteBlocksAtMost18Hours ==
    \A id \in Ids :
        (/\ reservations[id].duration_hours = Indefinite
         /\ IsTimeSlot(reservations[id].reservation_time))
        => End(reservations[id]) - Start(reservations[id]) <= 18 * 60

--------------------------------------------------------------------------
(* services.ts, api-client.ts: generateTimeSlots.  A slot 'HH:MM' is the   *)
(* time of day hour * 60 + minute.                                         *)

(* the inner loop never stopped at 02:00.  C24 does not hold of it. *)
SlotBreakNever(hour, minute) == FALSE

(* if (hour === 2 && minute > 0) break *)
SlotBreak(hour, minute) == hour = 2 /\ minute > 0

(* for (minute = 0; minute < 60; minute += 15) slots.push(...), with the   *)
(* break of the early-morning loop when early: the slots pushed from       *)
(* minute on                                                               *)
RECURSIVE MinuteLoop(_, _, _)
MinuteLoop(hour, minute, early) ==
    IF minute >= 60 THEN <<>>
    ELSE IF early /\ SlotBreak(hour, minute) THEN <<>>
    ELSE <<hour * 60 + minute>> \o MinuteLoop(hour, minute + 15, early)

(* for (hour = first; hour <= last; hour++): the slots pushed from hour on *)
RECURSIVE HourLoop(_, _, _)
HourLoop(hour, last, early) ==
    IF hour > last THEN <<>>
    ELSE MinuteLoop(hour, 0, early) \o HourLoop(hour + 1, last, early)

generateTimeSlots == HourLoop(12, 23, FALSE) \o HourLoop(0, 2, TRUE)

(* the reservation form: a start slot picked from generateTimeSlots() and  *)
(* a duration, submitted for an empty table                                *)
FormDurations == {20, Indefinite}

BookSlot ==
    /\ reservations = <<>>
    /\ \E i \in 1..Len(generateTimeSlots), dur \in FormDurations :
            Serve(createReservation(NewInput(1, 1, generateTimeSlots[i], dur, 2)))

NextSlots == BookSlot \/ DeleteReservation

SpecSlots == Init /\ [][NextSlots]_vars

(* position of a time of day in the operating window, 12:00 first *)
WindowPos(tm) == IF tm >= 12 * 60 THEN tm - 12 * 60 ELSE tm + 12 * 60

(* slots are n distinct multiples of 15 minutes inside the window 12:00    *)
(* through 02:00 of the next day, in window order                          *)
SlotsInWindowOrder(slots, n) ==
    /\ Len(slots) = n
    /\ \A i, j \in 1..Len(slots) : i # j => slots[i] # slots[j]
    /\ \A i \in 1..Len(slots) :
        /\ slots[i] % 15 = 0
        /\ slots[i] \in 0..(24 * 60 - 1)
        /\ WindowPos(slots[i]) <= WindowPos(2 * 60)
    /\ \A i \in 1..(Len(slots) - 1) : WindowPos(slots[i]) < WindowPos(slots[i + 1])

(* the start of reservation r is one of the slots of generateTimeSlots *)
BookedFromSlots(r) ==
    \E i \in 1..Len(generateTimeSlots) : generateTimeSlots[i] = r.reservation_time

(* C24 as stated: generateTimeSlots returns exactly 56 distinct slots,     *)
(* each a multiple of 15 minutes inside the window from 12:00 through      *)
(* 02:00 of the next day, in window order (and every start booked through *)
(* the form is one of them).                                               *)
C24_FiftySixSlots ==
    /\ SlotsInWindowOrder(generateTimeSlots, 56)
    /\ \A id \in Ids : BookedFromSlots(reservations[id])

(* C24 amended: generateTimeSlots returns exactly 57 distinct slots (12:00 *)
(* to 23:45, then 00:00 to 02:00 inclusive), each a multiple of 15 minutes *)
(* inside the window, in window order (and every start booked through the *)
(* form is one of them).                                                   *)
C24_FiftySevenSlots ==
    /\ SlotsInWindowOrder(generateTimeSlots, 57)
    /\ \A id \in Ids : BookedFromSlots(reservations[id])

(* the last slot, 02:00, has been booked *)
C24_Witness ==
    /\ reservations # <<>>
    /\ reservations[1].reservation_time = generateTimeSlots[Len(generateTimeSlots)]
    /\ reservations[1].reservation_time = 2 * 60
    /\ generateTimeSlots[1] = 12 * 60

--------------------------------------------------------------------------
(* C25: every row update of the sweep is conditioned on the row still      *)
(* being active.  A step of the sweep leaves unchanged every reservation   *)
(* that is no longer active (cancelled or completed by another request     *)
(* since the sweep selected it); a reservation cancelled concurrently with *)
(* a sweep keeps status cancelled and its duration.                        *)
C25_SweepSkipsInactiveRows ==
    [][(/\ calls[Scheduler].op = "sweep"
        /\ calls'[Scheduler] # calls[Scheduler]
        /\ calls'[Staff] = calls[Staff])
       => \A id \in Ids :
            reservations[id].status # "active"
            => reservations'[id] = reservations[id]]_vars

--------------------------------------------------------------------------
(* Two open pages calling /api/reservations/auto-complete at the same      *)
(* time: two invocations of autoCompleteExpiredReservations, statement by  *)
(* statement, while reservations are booked and time passes.               *)

NextTwoSweeps ==
    \/ BeginCreate(Staff)
    \/ Insert(Staff)
    \/ \E p \in Procs : BeginSweep(p)
    \/ \E p \in Procs : Sweep(p)
    \/ \E p \in Procs : Update(p)
    \/ \E p \in Procs : Commit(p)
    \/ Tick

SpecTwoSweeps == Init /\ [][NextTwoSweeps]_vars

(* C26: when two invocations of autoCompleteExpiredReservations run        *)
(* concurrently, the rows end as after a single invocation and each        *)
(* expired reservation is counted by at most one of them.  Stated of the   *)
(* counts: when both invocations have returned, the sum of the two         *)
(* returned completedCount values does not exceed the number of completed  *)
(* reservations.                                                           *)
C26_SweepsCountOnce ==
    (\A p \in Procs : calls[p].op = "sweep" /\ calls[p].pc = "done")
    => calls[Staff].result.count + calls[Scheduler].result.count
          <= Cardinality({ id \in Ids : reservations[id].status = "completed" })

--------------------------------------------------------------------------
(* C27: the trigger and the application check implement the same rule.     *)
(* For an existing reservation X and a candidate on X's table, the INSERT  *)
(* of the candidate is rejected by check_reservation_overlap if and only   *)
(* if checkTableAvailability returns false for it.                         *)
C27_TriggerEqualsCheck ==
    (/\ calls[1].op = "check"
     /\ Len(reservations) = 1
     /\ reservations[1].table_id = calls[1].input.table_id)
    => (check_reservation_overlap(reservations, InsertedRow(calls[1].input), 0)
            <=> ~calls[1].result.ok)

--------------------------------------------------------------------------
(* the intervals of r1 and r2 only touch: one ends at the instant the      *)
(* other starts                                                            *)
Touch(r1, r2) == End(r1) = Start(r2) \/ End(r2) = Start(r1)

(* C28: intervals are half-open.  A reservation that only touches an       *)
(* active reservation of the same table, and overlaps none, does not       *)
(* conflict: checkTableAvailability returns true for it and                *)
(* createReservation accepts it, finite or indefinite, whichever of the    *)
(* two is booked first.                                                    *)
C28_TouchingNeverConflicts ==
    [][CreateReservation =>
        LET data == calls'[1].input
        IN (/\ \E id \in Ids : /\ reservations[id].status = "active"
                               /\ reservations[id].table_id = data.table_id
                               /\ Touch(reservations[id], data)
            /\ SlotFree(reservations, data))
           => /\ checkTableAvailability(reservations, data.table_id,
                    data.reservation_date, data.reservation_time,
                    data.duration_hours, 0)
              /\ calls'[1].result.ok]_vars

--------------------------------------------------------------------------
(* Bookings of one date around midnight: an evening reservation that runs  *)
(* past midnight, and early-morning slots of the same date.                *)

EarlyInputs ==
    { NewInput(1, 0, 22 * 60, 40, 2),           \* day 0, 22:00-02:00 of day 1
      NewInput(1, 0, 60, 10, 2),                \* day 0, 01:00-02:00
      NewInput(1, 0, 0, 20, 2),                 \* day 0, 00:00-02:00
      NewInput(1, 0, 23 * 60, Indefinite, 2) }  \* day 0, 23:00, indefinite

CreateEarly ==
    \E data \in EarlyInputs : Serve(createReservation(data))

NextEarly == CreateEarly \/ DeleteReservation

SpecEarly == Init /\ [][NextEarly]_vars

(* C29: createReservation fails with TABLE_UNAVAILABLE only when the       *)
(* interval is occupied.  For every valid candidate whose interval, taken  *)
(* as date+time instants, overlaps no active reservation on the same       *)
(* table, the insert is accepted.                                          *)
C29_RejectedOnlyWhenOccupied ==
    [][CreateEarly =>
        LET data == calls'[1].input
        IN (/\ ~InvalidInput(data, now)
            /\ \A id \in Ids :
                (/\ reservations[id].status = "active"
                 /\ reservations[id].table_id = data.table_id)
                => ~RowsOverlap(reservations[id], data))
           => calls'[1].result.ok]_vars

--------------------------------------------------------------------------
(* C30: when an insert attempt of createReservation fails with an error    *)
(* that is not a violation of the overlap constraint, createReservation    *)
(* makes no further attempt and fails with that same error.                *)
C30_OtherErrorsNotRetried ==
    [][CreateInputCase =>
        LET err == StatementError(reservations, InsertedRow(calls'[1].input), 0)
        IN (err # "" /\ err # ConflictMessage)
           => /\ calls'[1].attempt = 1
              /\ ~calls'[1].result.ok
              /\ calls'[1].result.error = err
              /\ reservations' = reservations]_vars

--------------------------------------------------------------------------
NotStartedMessage == "Cannot complete a reservation that hasn't started yet"

(* C31: manual completion (complete_now with status completed) of an       *)
(* indefinite reservation whose start is not before now is rejected with   *)
(* an error; afterwards the reservation is as it was, active with          *)
(* duration_hours -1, and no activity log entry has been written.          *)
C31_NotStartedRejected ==
    [][CompleteNow =>
        LET id == calls'[1].id
        IN (/\ id \in Ids
            /\ reservations[id].duration_hours = Indefinite
            /\ now - Start(reservations[id]) <= 0)
           => /\ ~calls'[1].result.ok
              /\ calls'[1].result.error = NotStartedMessage
              /\ reservations' = reservations
              /\ activity_logs' = activity_logs]_vars

(* a completion at the very instant of the start has been rejected: the    *)
(* reservation is active and indefinite, the log empty                     *)
C31_Witness ==
    /\ calls[1].op = "update"
    /\ calls[1].result.error = NotStartedMessage
    /\ calls[1].id \in Ids
    /\ now = Start(reservations[calls[1].id])
    /\ reservations[calls[1].id].status = "active"
    /\ reservations[calls[1].id].duration_hours = Indefinite
    /\ activity_logs = <<>>

--------------------------------------------------------------------------
(* C32: in every reachable state every activity log entry has a non-empty  *)
(* field_changes map, and every field recorded in it has an old value      *)
(* different from its new value.                                           *)
C32_LoggedFieldsChanged ==
    \A i \in 1..Len(activity_logs) :
        /\ DOMAIN activity_logs[i].field_changes # {}
        /\ \A f \in DOMAIN activity_logs[i].field_changes :
            activity_logs[i].field_changes[f].old # activity_logs[i].field_changes[f].new

--------------------------------------------------------------------------
(* A reservation checked and edited against its own row: staff open the    *)
(* edit form of a reservation, the form asks checkTableAvailability with   *)
(* the reservation's id excluded, and the edit keeps or shortens the stay  *)

SelfCreateInputs ==
    { NewInput(1, 0, 18 * 60, 40, 2),           \* day 0, 18:00-22:00
      NewInput(1, 0, 22 * 60, Indefinite, 2),   \* day 0, 22:00, indefinite
      NewInput(2, 0, 22 * 60, 40, 2) }          \* another table, 22:00-02:00

SelfInputs ==
    { [notes |-> "n1"],
      [duration_hours |-> 20] }

CreateForSelf ==
    \E data \in SelfCreateInputs :
        ServeWithin(createReservation(data), MaxEditLogs)

(* checkTableAvailability(R.table, R.date, R.time, R.duration, R.id) *)
CheckSelf ==
    \E id \in Ids :
        /\ calls' = [calls EXCEPT ![1] =
                Return([IdleCall EXCEPT !.op = "check", !.id = id,
                                        !.input = reservations[id]],
                       [NoResult EXCEPT !.ok =
                            checkTableAvailability(reservations,
                                reservations[id].table_id,
                                reservations[id].reservation_date,
                                reservations[id].reservation_time,
                                reservations[id].duration_hours, id)])]
        /\ UNCHANGED <<reservations, activity_logs, now>>

EditSelf ==
    \E id \in 1..MaxRes, data \in SelfInputs :
        ServeWithin(updateReservation(reservations, now, id, data), MaxEditLogs)

CancelSelf ==
    \E id \in 1..MaxRes :
        ServeWithin(deleteReservation(reservations, id), MaxEditLogs)

NextSelf == CreateForSelf \/ CheckSelf \/ EditSelf \/ CancelSelf

SpecSelf == Init /\ [][NextSelf]_vars

(* no reservation other than id that the check or the trigger looks at is  *)
(* on the table of id                                                      *)
AloneOnTable(id) ==
    \A j \in Ids \ {id} :
        \/ reservations[j].table_id # reservations[id].table_id
        \/ reservations[j].status = "cancelled"

(* the patch leaves table, date and time alone and does not lengthen the   *)
(* stay                                                                    *)
KeepsOrShrinks(r, data) ==
    /\ DOMAIN data \cap {"table_id", "reservation_date", "reservation_time"} = {}
    /\ "duration_hours" \in DOMAIN data =>
        /\ data["duration_hours"] > 0
        /\ \/ r.duration_hours = Indefinite
           \/ data["duration_hours"] <= r.duration_hours

(* C33: for a reservation R with no other reservation on its table,        *)
(* checkTableAvailability asked about R's own table, date, time and        *)
(* duration with R's id excluded returns true, and an updateReservation of *)
(* R that keeps or shrinks its interval is accepted and written to the     *)
(* row: R's own row never counts as a conflict.                            *)
C33_OwnRowNeverConflicts ==
    [][/\ CheckSelf =>
            (AloneOnTable(calls'[1].id) => calls'[1].result.ok)
       /\ EditSelf =>
            LET id == calls'[1].id
                data == calls'[1].input
            IN (/\ id \in Ids
                /\ AloneOnTable(id)
                /\ KeepsOrShrinks(reservations[id], data))
               => /\ calls'[1].result.ok
                  /\ reservations'[id] = ApplyPatch(reservations[id], data)]_vars

C33_Witness ==
    /\ calls[1].op = "update"
    /\ calls[1].result.ok
    /\ calls[1].id \in Ids
    /\ "duration_hours" \in DOMAIN calls[1].input
    /\ AloneOnTable(calls[1].id)
    /\ reservations[calls[1].id].status = "active"
    /\ reservations[calls[1].id].duration_hours = 20
    /\ Len(activity_logs) = 1
    /\ activity_logs[1].field_changes["duration_hours"].old = Indefinite
    /\ Len(reservations) = 2

--------------------------------------------------------------------------
(* The sweep invoked again and again while two members of staff book at    *)
(* the same time and the clock advances.  Every statement issued is        *)
(* executed, the clock does not stop, and the monitor's timer fires        *)
(* whether or not staff are booking: the connection the scheduler shares   *)
(* with the second member of staff is free again and again, and the sweep  *)
(* is begun on it again and again (strong fairness).                       *)

NextMonitor ==
    \/ \E p \in Procs : BeginCreate(p)
    \/ \E p \in Procs : Insert(p)
    \/ \E p \in Procs : Commit(p)
    \/ BeginSweep(Scheduler)
    \/ Sweep(Scheduler)
    \/ Update(Scheduler)
    \/ Tick

SpecMonitor == Init /\ [][NextMonitor]_vars

SpecMonitorFair ==
    /\ SpecMonitor
    /\ \A p \in Procs : WF_vars(Insert(p)) /\ WF_vars(Commit(p))
    /\ SF_vars(BeginSweep(Scheduler))
    /\ WF_vars(Sweep(Scheduler))
    /\ WF_vars(Update(Scheduler))
    /\ WF_vars(Tick)

(* reservation id is active and one of the two queries of the sweep        *)
(* selects it                                                              *)
ActiveExpired(id) ==
    id \in regularExpiredReservations(reservations, now)
            \cup indefiniteExpiredReservations(reservations, now)

(* C34: with the sweep invoked again and again, every reservation that is  *)
(* active and expired eventually has status completed or cancelled.        *)
C34_ExpiredEventuallyCompleted ==
    \A id \in 1..MaxRes :
        ActiveExpired(id) ~>
            (id \in Ids /\ reservations[id].status \in {"completed", "cancelled"})

--------------------------------------------------------------------------
(* Two members of staff editing the same reservations at the same time *)

TwoEditInputs ==
    { [notes |-> "n1"],
      [status |-> "completed"],
      [status |-> "cancelled"] }

BeginEdit(p) ==
    \E id \in 1..MaxRes, data \in TwoEditInputs :
        Begin(p, updateReservation(reservations, now, id, data))

NextTwoEdits ==
    \/ BeginCreate(Staff)
    \/ Insert(Staff)
    \/ \E p \in Procs : BeginEdit(p)
    \/ \E p \in Procs : Update(p)
    \/ \E p \in Procs : Commit(p)

SpecTwoEdits == Init /\ [][NextTwoEdits]_vars

(* C35: every activity log entry written by updateReservation records as   *)
(* old value of each field the value the row held immediately before the   *)
(* update was applied, also when two updateReservation calls on the same   *)
(* reservation run concurrently.                                           *)
C35_LoggedOldIsPrevious ==
    [][\A p \in Procs :
        (/\ Commit(p)
         /\ calls[p].op = "update"
         /\ calls[p].pend.haslog)
        => \A f \in DOMAIN calls[p].pend.log.field_changes :
                calls[p].pend.log.field_changes[f].old
                    = Normalized(reservations[calls[p].pend.id], f)]_vars

--------------------------------------------------------------------------
(* the columns the overlap rule of the trigger reads *)
IntervalFields ==
    {"table_id", "reservation_date", "reservation_time", "duration_hours"}

(* C36: a deleteReservation, or an updateReservation whose patch touches   *)
(* none of table, date, time and duration, is never rejected by the        *)
(* overlap constraint, whatever the status of the reservation and whatever *)
(* other reservations are on its table.                                    *)
C36_NonIntervalUpdateNotRejected ==
    (/\ calls[1].op \in {"update", "delete"}
     /\ DOMAIN calls[1].input \cap IntervalFields = {})
    => calls[1].result.error # ConflictMessage

====
